---------------------------- MODULE Spec2Model ----------------------------
(***************************************************************************)
(* Model of the bf interpreter (src/src/interpreter/mod.rs), default build *)
(* (feature "debug" off).  The compiler (Instruction::parse, update_with,  *)
(* update_jumps, Interpreter::with_str) is modelled as operators on        *)
(* sequences of source bytes; the executor (Interpreter::poll, input,      *)
(* Instruction::execute) as a state machine.  Indices (pc, cell pointer,   *)
(* jump targets, error positions) are 0-based as in the Rust code.         *)
(***************************************************************************)
EXTENDS Integers, Sequences, FiniteSets, TLC

VARIABLES
    src,          \* the source bytes handed to with_str
    phase,        \* "new" | "idle" | "polling" | "failed" | "panicked"
    result,       \* what with_str returned: NoResult, or [tag, err, index]
    instructions, \* Interpreter.instructions
    memory,       \* Interpreter.memory, a function on 0..Len-1
    position,     \* Interpreter.position (cell pointer)
    pc,           \* Interpreter.pc
    input,        \* Interpreter.input (Vec<u8>)
    event,        \* the Output value the last poll() returned
    outputs,      \* history: bytes returned in Output::Output, in order
    supplied,     \* history: bytes handed to input(), in order
    consumed,     \* history: bytes stored by Input instructions, in order
    afterEnd      \* history: the calls made since poll() first returned End

vars == <<src, phase, result, instructions, memory, position, pc, input,
          event, outputs, supplied, consumed, afterEnd>>

----------------------------------------------------------------------------
(* Bounds of the model *)

\* longest source enumerated byte by byte
MaxLen == 4
\* cells of the tape (Interpreter::new allocates 30_000; scaled down)
MemLen == 3
\* total number of bytes the caller supplies through input()
MaxInput == 2
\* number of Output events recorded before the caller stops polling
MaxOut == 2
\* number of calls (poll or input) made after poll() first returned End
MaxEndCalls == 3
\* instructions the character-by-character reference run may execute
MaxFuel == 40

(* Program constants *)

\* u8 has 256 values
U8 == 256

----------------------------------------------------------------------------
(* Source bytes.  "?" stands for every byte that from_byte does not know   *)
(* (b'?' itself is only an instruction with feature "debug").              *)

Foldable == {"+", "-", ">", "<"}
InstructionChars == Foldable \cup {".", ",", "[", "]"}
Bytes == InstructionChars \cup {"?"}
InputBytes == {0, 65}

Rep(c, n) == [i \in 1..n |-> c]
SeqsUpTo(S, n) == UNION {[1..k -> S] : k \in 0..n}

\* the program literal of main (src/src/main.rs:6); its byte 51 is `?`
HelloWorld ==
    <<"+", "+", "+", "+", "+", "+", "+", "+", "[", ">", "+", "+",
       "+", "+", "[", ">", "+", "+", ">", "+", "+", "+", ">", "+",
       "+", "+", ">", "+", "<", "<", "<", "<", "-", "]", ">", "+",
       ">", "+", ">", "-", ">", ">", "+", "[", "<", "]", "<", "-",
       "]", ">", ">", "?", ".", ">", "-", "-", "-", ".", "+", "+",
       "+", "+", "+", "+", "+", ".", ".", "+", "+", "+", ".", ">",
       ">", ".", "<", "-", ".", "<", ".", "+", "+", "+", ".", "-",
       "-", "-", "-", "-", "-", ".", "-", "-", "-", "-", "-", "-",
       "-", "-", ".", ">", ">", "+", ".", ">", "+", "+", ".">>

\* b"Hello World!\n"
HelloWorldText == <<72, 101, 108, 108, 111, 32, 87, 111, 114, 108, 100, 33, 10>>

\* runs long enough to carry a u8 count past 255, alone or followed by
\* one more instruction, an unknown byte or a bracket pair
LongSources ==
    {Rep(c, U8) \o t : c \in {"+", ">"},
                       t \in {<<>>, <<".">>, <<"?">>, <<"[", "]">>}}

Sources == SeqsUpTo(Bytes, MaxLen) \cup LongSources \cup {HelloWorld}

----------------------------------------------------------------------------
(* Instruction: [op, arg]; arg is the count of Add/Sub/MoveRight/MoveLeft, *)
(* the target of Jump/JumpBack, 0 for Output/Input.                        *)

Inst(op, arg) == [op |-> op, arg |-> arg]
None == Inst("None", 0)

from_byte(byte) ==
    CASE byte = "+" -> Inst("Add", 1)
      [] byte = "-" -> Inst("Sub", 1)
      [] byte = ">" -> Inst("MoveRight", 1)
      [] byte = "<" -> Inst("MoveLeft", 1)
      [] byte = "." -> Inst("Output", 0)
      [] byte = "," -> Inst("Input", 0)
      [] byte = "[" -> Inst("Jump", 0)
      [] byte = "]" -> Inst("JumpBack", 0)
      [] OTHER      -> None

\* u8 `+= 1`: overflow panics when the build checks overflow (dev profile)
\* and wraps otherwise (release profile)
u8_inc(n, checks) ==
    IF n + 1 < U8 THEN [panic |-> FALSE, n |-> n + 1]
    ELSE IF checks THEN [panic |-> TRUE, n |-> n]
    ELSE [panic |-> FALSE, n |-> (n + 1) % U8]

u8_saturating_sub(a, b) == IF a - b < 0 THEN 0 ELSE a - b
u8_saturating_add(a, b) == IF a + b > U8 - 1 THEN U8 - 1 ELSE a + b

SameDir == {<<"Add", "+">>, <<"Sub", "-">>, <<"MoveRight", ">">>, <<"MoveLeft", "<">>}
OppositeDir == {<<"Add", "-">>, <<"Sub", "+">>, <<"MoveRight", "<">>, <<"MoveLeft", ">">>}

\* update_with: [folded, panic, inst]; folded is the returned bool
update_with(inst, byte, checks) ==
    IF <<inst.op, byte>> \in SameDir
    THEN LET r == u8_inc(inst.arg, checks)
         IN  [folded |-> TRUE, panic |-> r.panic, inst |-> Inst(inst.op, r.n)]
    ELSE IF <<inst.op, byte>> \in OppositeDir
    THEN [folded |-> TRUE, panic |-> FALSE,
          inst |-> Inst(inst.op, u8_saturating_sub(inst.arg, 1))]
    ELSE [folded |-> FALSE, panic |-> FALSE, inst |-> inst]

\* one turn of parse's while loop on the byte str.get(count): s is
\* [tag, count, inst], tag "Run" while the loop goes on, "Ok" once a byte
\* was missing or not folded, "Panic" once `*n += 1` overflowed
parse_turn(s, str, checks) ==
    IF s.tag # "Run" THEN s
    ELSE IF s.count >= Len(str) THEN [s EXCEPT !.tag = "Ok"]
    ELSE LET u == update_with(s.inst, str[s.count + 1], checks)
         IN  IF u.panic THEN [s EXCEPT !.tag = "Panic"]
             ELSE IF u.folded
             THEN [tag |-> "Run", count |-> s.count + 1, inst |-> u.inst]
             ELSE [s EXCEPT !.tag = "Ok"]

\* k turns of the loop, one after the other (split in halves only to keep
\* the evaluation shallow on long runs)
RECURSIVE parse_turns(_, _, _, _)
parse_turns(s, k, str, checks) ==
    IF k = 0 THEN s
    ELSE IF k = 1 THEN parse_turn(s, str, checks)
    ELSE LET half == parse_turns(s, k \div 2, str, checks)
         IN  IF half.tag = "Run"
             THEN parse_turns(half, k - (k \div 2), str, checks)
             ELSE half

\* parse(str): Ok((count, instruction)) | Err(msg) | panic
parse(str, checks) ==
    IF Len(str) = 0
    THEN [tag |-> "Err", err |-> "expected byte found EOF", count |-> 0, inst |-> None]
    ELSE IF from_byte(str[1]) = None
    THEN [tag |-> "Err", err |-> "unexpected char", count |-> 0, inst |-> None]
    ELSE LET start == [tag |-> "Run", count |-> 1, inst |-> from_byte(str[1])]
             r == parse_turns(start, Len(str), str, checks)
         IN  [tag |-> r.tag, err |-> "", count |-> r.count, inst |-> r.inst]

\* update_jumps (cfg(not(feature = "debug"))): the for loop from index i with
\* the stack of open Jump indices; Ok(instructions) | Err(msg)
RECURSIVE update_jumps_loop(_, _, _)
update_jumps_loop(instrs, i, stack) ==
    IF i >= Len(instrs)
    THEN IF stack # <<>>
         THEN [tag |-> "Err", err |-> "unmatched '[' found", instructions |-> instrs]
         ELSE [tag |-> "Ok", err |-> "", instructions |-> instrs]
    ELSE IF instrs[i + 1].op = "Jump"
    THEN update_jumps_loop(instrs, i + 1, Append(stack, i))
    ELSE IF instrs[i + 1].op = "JumpBack"
    THEN IF stack # <<>>
         THEN LET start == stack[Len(stack)]
              IN  update_jumps_loop(
                      [instrs EXCEPT ![start + 1] = Inst("Jump", i),
                                     ![i + 1] = Inst("JumpBack", start)],
                      i + 1, SubSeq(stack, 1, Len(stack) - 1))
         ELSE [tag |-> "Err", err |-> "unmatched ']' found", instructions |-> instrs]
    ELSE update_jumps_loop(instrs, i + 1, stack)

update_jumps(instrs) == update_jumps_loop(instrs, 0, <<>>)

\* the scan loop of with_str from byte offset index
RECURSIVE with_str_loop(_, _, _, _)
with_str_loop(bf, index, instrs, checks) ==
    IF index < Len(bf)
    THEN LET p == parse(SubSeq(bf, index + 1, Len(bf)), checks)
         IN  CASE p.tag = "Panic" ->
                    [tag |-> "Panic", err |-> "attempt to add with overflow",
                     index |-> index, instructions |-> <<>>]
               [] p.tag = "Err" ->
                    [tag |-> "Err", err |-> p.err, index |-> index, instructions |-> <<>>]
               [] OTHER ->
                    with_str_loop(bf, index + p.count, Append(instrs, p.inst), checks)
    ELSE LET j == update_jumps(instrs)
         IN  IF j.tag = "Err"
             THEN [tag |-> "Err", err |-> j.err, index |-> 0, instructions |-> <<>>]
             ELSE [tag |-> "Ok", err |-> "", index |-> 0, instructions |-> j.instructions]

\* with_str(bf): Ok(self) | Err((msg, position)) | panic
with_str(bf, checks) == with_str_loop(bf, 0, <<>>, checks)

----------------------------------------------------------------------------
(* Output: what poll() returns.  NoEvent is execute's Option::None.        *)

Event(kind, val) == [kind |-> kind, val |-> val]
NoEvent == Event("None", 0)
OutputEv(byte) == Event("Output", byte)
InputEv == Event("Input", 0)
End == Event("End", 0)

(* The fields of Interpreter that execute works on. *)
Interpreter(mem, pos, p, inp) ==
    [memory |-> mem, position |-> pos, pc |-> p, input |-> inp]

\* memory.len()
MemoryLen(mem) == Cardinality(DOMAIN mem)

\* Vec::new / vec![0; n]
new_memory == [i \in 0..(MemLen - 1) |-> 0]

\* what execute hands back: the interpreter as it left it, its return value,
\* and whether it panicked (index out of bounds)
Executed(inter, out) == [inter |-> inter, out |-> out, panic |-> FALSE]
Panicked(inter) == [inter |-> inter, out |-> NoEvent, panic |-> TRUE]

\* memory[position] of an Index expression: panics when position >= len
InBounds(inter) == inter.position < MemoryLen(inter.memory)

\* Instruction::execute(&self, inter); poll has already done pc += 1
execute(inst, inter) ==
    LET cell == inter.memory[inter.position]
        store(v) == [inter EXCEPT !.memory[inter.position] = v]
    IN
    CASE inst.op = "Add" ->
            IF InBounds(inter)
            THEN Executed(store(u8_saturating_add(cell, inst.arg)), NoEvent)
            ELSE Panicked(inter)
      [] inst.op = "Sub" ->
            IF InBounds(inter)
            THEN Executed(store(u8_saturating_sub(cell, inst.arg)), NoEvent)
            ELSE Panicked(inter)
      [] inst.op = "MoveRight" ->
            Executed([inter EXCEPT !.position = inter.position + inst.arg], NoEvent)
      [] inst.op = "MoveLeft" ->
            Executed([inter EXCEPT !.position =
                          IF inter.position - inst.arg < 0 THEN 0
                          ELSE inter.position - inst.arg], NoEvent)
      [] inst.op = "Output" ->
            IF InBounds(inter)
            THEN Executed(inter, OutputEv(cell))
            ELSE Panicked(inter)
      [] inst.op = "Input" ->
            IF inter.input # <<>>
            THEN \* Vec::pop takes the LAST element
                 LET n == Len(inter.input)
                     popped == [inter EXCEPT !.input = SubSeq(inter.input, 1, n - 1)]
                 IN  IF InBounds(inter)
                     THEN Executed([popped EXCEPT !.memory[inter.position] =
                                        inter.input[n]], NoEvent)
                     ELSE Panicked(popped)
            ELSE Executed([inter EXCEPT !.pc = inter.pc - 1], InputEv)
      [] inst.op = "Jump" ->
            IF InBounds(inter)
            THEN Executed(IF cell = 0 THEN [inter EXCEPT !.pc = inst.arg] ELSE inter,
                          NoEvent)
            ELSE Panicked(inter)
      [] inst.op = "JumpBack" ->
            IF InBounds(inter)
            THEN Executed(IF cell # 0 THEN [inter EXCEPT !.pc = inst.arg] ELSE inter,
                          NoEvent)
            ELSE Panicked(inter)

\* poll_loop without the `pc -= 1` of an Input instruction that found the
\* queue empty: pc stays past the instruction
poll_loop_no_restore(inter, instrs) ==
    IF inter.pc < Len(instrs)
    THEN LET r == execute(instrs[inter.pc + 1], [inter EXCEPT !.pc = inter.pc + 1])
         IN  IF r.out = InputEv THEN [r EXCEPT !.inter.pc = inter.pc + 1] ELSE r
    ELSE Executed(inter, End)

\* poll_loop with a JumpBack that never jumps back: the loop body runs once
poll_loop_falls_through(inter, instrs) ==
    IF inter.pc < Len(instrs)
    THEN IF instrs[inter.pc + 1].op = "JumpBack"
         THEN Executed([inter EXCEPT !.pc = inter.pc + 1], NoEvent)
         ELSE execute(instrs[inter.pc + 1], [inter EXCEPT !.pc = inter.pc + 1])
    ELSE Executed(inter, End)

\* one turn of poll's while loop: fetch instructions.get(pc), pc += 1,
\* execute; when get returns None the loop ends and poll returns End
poll_loop(inter, instrs) ==
    IF inter.pc < Len(instrs)
    THEN execute(instrs[inter.pc + 1], [inter EXCEPT !.pc = inter.pc + 1])
    ELSE Executed(inter, End)

\* poll_enter with the early return rewinding the program (pc = 0) instead
\* of leaving the interpreter alone
poll_enter_rewinds(inter, instrs) ==
    IF inter.pc >= Len(instrs)
    THEN Executed([inter EXCEPT !.pc = 0], End)
    ELSE poll_loop(inter, instrs)

\* entering poll: the early return, then the first turn of the loop
poll_enter(inter, instrs) ==
    IF inter.pc >= Len(instrs)
    THEN Executed(inter, End)
    ELSE poll_loop(inter, instrs)

\* input putting the new bytes in front of the pending ones
input_prepends(queue, bytes) == bytes \o queue

\* Interpreter::input
input_extend(queue, bytes) == queue \o bytes

----------------------------------------------------------------------------
(* The state machine *)

NoResult == [tag |-> "None", err |-> "", index |-> 0]

\* Interpreter::new(), with the source the caller is about to compile
Init ==
    /\ src \in Sources
    /\ phase = "new"
    /\ result = NoResult
    /\ instructions = <<>>
    /\ memory = new_memory
    /\ position = 0
    /\ pc = 0
    /\ input = <<>>
    /\ event = NoEvent
    /\ outputs = <<>>
    /\ supplied = <<>>
    /\ consumed = <<>>
    /\ afterEnd = <<>>

\* Interpreter::new().with_str(src)
WithStr ==
    /\ phase = "new"
    /\ \E checks \in BOOLEAN :
          LET r == with_str(src, checks)
          IN  /\ result' = [tag |-> r.tag, err |-> r.err, index |-> r.index]
              /\ instructions' = r.instructions
              /\ phase' = CASE r.tag = "Ok" -> "idle"
                            [] r.tag = "Err" -> "failed"
                            [] OTHER -> "panicked"
    /\ UNCHANGED <<src, memory, position, pc, input, event, outputs,
                   supplied, consumed, afterEnd>>

\* the effect of one turn r of poll on the state
Apply(r) ==
    /\ memory' = r.inter.memory
    /\ position' = r.inter.position
    /\ pc' = r.inter.pc
    /\ input' = r.inter.input
    /\ phase' = IF r.panic THEN "panicked"
                ELSE IF r.out = NoEvent THEN "polling" ELSE "idle"
    /\ event' = IF r.panic \/ r.out = NoEvent THEN event ELSE r.out
    /\ outputs' = IF ~r.panic /\ r.out.kind = "Output"
                  THEN Append(outputs, r.out.val) ELSE outputs
    /\ consumed' = IF ~r.panic /\ Len(r.inter.input) < Len(input)
                   THEN Append(consumed, input[Len(input)]) ELSE consumed
    /\ afterEnd' = IF event = End THEN Append(afterEnd, "poll") ELSE afterEnd
    /\ UNCHANGED <<src, result, instructions, supplied>>

\* the caller calls poll()
Poll ==
    /\ phase = "idle"
    /\ Len(outputs) < MaxOut
    /\ Len(afterEnd) < MaxEndCalls
    /\ Apply(poll_enter(Interpreter(memory, position, pc, input), instructions))

\* poll() goes round its loop once more
PollLoop ==
    /\ phase = "polling"
    /\ Apply(poll_loop(Interpreter(memory, position, pc, input), instructions))

\* the caller calls input(bytes) between two polls
Input ==
    /\ phase = "idle"
    /\ Len(afterEnd) < MaxEndCalls
    /\ \E bytes \in SeqsUpTo(InputBytes, MaxInput) \ {<<>>} :
          /\ Len(supplied) + Len(bytes) <= MaxInput
          /\ input' = input_extend(input, bytes)
          /\ supplied' = supplied \o bytes
    /\ afterEnd' = IF event = End THEN Append(afterEnd, "input") ELSE afterEnd
    /\ UNCHANGED <<src, phase, result, instructions, memory, position, pc,
                   event, outputs, consumed>>

Next == WithStr \/ Poll \/ PollLoop \/ Input

Spec == Init /\ [][Next]_vars

----------------------------------------------------------------------------
(* Helpers of the properties *)

\* a step in which poll() executes (the call, or one more turn of its loop)
PollStep == Poll \/ PollLoop

\* the instruction the next turn of poll's loop fetches
Fetched == instructions[pc + 1]
Fetches(op) == pc < Len(instructions) /\ Fetched.op = op

Reverse(q) == [i \in 1..Len(q) |-> q[Len(q) + 1 - i]]
IsPrefix(p, q) == Len(p) <= Len(q) /\ p = SubSeq(q, 1, Len(p))

----------------------------------------------------------------------------
(* C1: resumability.  (a) When poll() has returned the needs-input event,  *)
(* pc is at an Input instruction; (b) the turn that returned it left tape, *)
(* cell pointer, input queue and pc as they were; (c) after exactly one    *)
(* byte b was appended, the next poll() executes that Input once: b is in  *)
(* the current cell, the queue is empty again, pc is one further; (d) for  *)
(* source `,.` the first event is needs-input and, after 65 alone was      *)
(* supplied, the next event is Output(65).                                 *)

C1_PcAtInput ==
    (phase = "idle" /\ event = InputEv) => Fetches("Input")

C1_NeedsInputFrame ==
    (PollStep /\ phase' = "idle" /\ event' = InputEv)
        => (memory' = memory /\ position' = position /\ input' = input /\ pc' = pc)

C1_ResumeStep ==
    (Poll /\ event = InputEv /\ Len(input) = 1)
        => /\ phase' # "panicked"
           /\ position \in DOMAIN memory
           /\ memory' = [memory EXCEPT ![position] = input[1]]
           /\ position' = position
           /\ input' = <<>>
           /\ pc' = pc + 1

C1_Scenario ==
    src = <<",", ".">> =>
        /\ (supplied = <<>> /\ event # NoEvent) => event = InputEv
        /\ (supplied = <<65>> /\ event.kind = "Output") => event.val = 65

\* C1: resumability, (a) to (d) together: after the needs-input event the
\* pending Input instruction is still to be executed and nothing has
\* changed, and the poll() that follows one appended byte b executes it
\* exactly once, storing b and advancing pc by one.
C1_Resumability ==
    /\ [](C1_PcAtInput /\ C1_Scenario)
    /\ [][C1_NeedsInputFrame /\ C1_ResumeStep]_vars

\* what of C1 the code does keep: everything, as long as the cell pointer
\* is inside the tape when the Input instruction is resumed
C1_ResumeInBounds ==
    /\ [](C1_PcAtInput /\ C1_Scenario)
    /\ [][C1_NeedsInputFrame /\ (position < MemoryLen(memory) => C1_ResumeStep)]_vars

----------------------------------------------------------------------------
(* C2: the terminal state is idempotent.  Once poll() has returned End,    *)
(* every later step (a poll() or an input() call) leaves End as the last   *)
(* event returned, and memory, cell pointer and pc as they are.            *)

C2_TerminalIdempotent ==
    [][event = End => /\ event' = End
                      /\ phase' = "idle"
                      /\ memory' = memory
                      /\ position' = position
                      /\ pc' = pc]_vars

\* End was returned after some output, then poll, input and poll were called
C2_Witness ==
    /\ event = End
    /\ outputs # <<>>
    /\ afterEnd = <<"poll", "input", "poll">>

----------------------------------------------------------------------------
(* C3: folding is semantically transparent.  The reference is the source   *)
(* taken one character at a time, each as a count-1 instruction, through   *)
(* the same update_jumps and the same execute.                             *)

unfolded(bf) == [i \in 1..Len(bf) |-> from_byte(bf[i])]

\* polls the reference until End, needs-input, a panic or the fuel is spent
RECURSIVE run(_, _, _, _)
run(instrs, inter, outs, fuel) ==
    IF fuel = 0
    THEN [status |-> "Fuel", outputs |-> outs, inter |-> inter]
    ELSE LET r == poll_loop(inter, instrs)
         IN  IF r.panic
             THEN [status |-> "Panic", outputs |-> outs, inter |-> r.inter]
             ELSE IF r.out \in {End, InputEv}
             THEN [status |-> r.out.kind, outputs |-> outs, inter |-> r.inter]
             ELSE IF r.out.kind = "Output"
             THEN run(instrs, r.inter, Append(outs, r.out.val), fuel - 1)
             ELSE run(instrs, r.inter, outs, fuel - 1)

\* the reference run of bf with the bytes of inp supplied before the first poll
reference(bf, inp) ==
    run(update_jumps(unfolded(bf)).instructions,
        Interpreter(new_memory, 0, 0, inp), <<>>, MaxFuel)

\* the run so far took its input as if all of it had been supplied at once,
\* before the first poll (the queue is popped from its end)
SuppliedUpFront == supplied = input \o Reverse(consumed)

\* C3: when the folded program of a source over the eight instruction
\* characters has run to End, the character-by-character run on the same
\* input has ended too, with the same outputs, tape and cell pointer.
\* (Stated on the sources enumerated byte by byte; a reference run that
\* spends its fuel decides nothing.)
C3_FoldTransparent ==
    (/\ phase = "idle" /\ event = End /\ afterEnd = <<>>
     /\ Len(src) <= MaxLen
     /\ SuppliedUpFront)
        => LET ref == reference(src, supplied)
           IN  ref.status # "Fuel"
                 => /\ ref.status = "End"
                    /\ ref.outputs = outputs
                    /\ ref.inter.memory = memory
                    /\ ref.inter.position = position

----------------------------------------------------------------------------
(* Brackets of a source, counted on its bytes (1-based k, 0-based offsets) *)

Min(S) == CHOOSE x \in S : \A y \in S : x <= y
Count(seq, c, lo, hi) == Cardinality({k \in lo..hi : seq[k] = c})
OnlyInstructionChars(bf) == \A k \in 1..Len(bf) : bf[k] \in InstructionChars
UnknownAt(bf) == {k \in 1..Len(bf) : bf[k] \notin InstructionChars}

\* the `]` that close nothing, the `[` that nothing closes
UnmatchedCloses(bf) ==
    {k \in 1..Len(bf) : bf[k] = "]" /\ Count(bf, "]", 1, k) > Count(bf, "[", 1, k)}
UnclosedOpens(bf) ==
    {k \in 1..Len(bf) : /\ bf[k] = "["
                        /\ \A j \in k..Len(bf) :
                              Count(bf, "[", k, j) > Count(bf, "]", k, j)}
Balanced(bf) == UnmatchedCloses(bf) = {} /\ UnclosedOpens(bf) = {}

\* the properly nested partner of the Jump at index i (0-based)
Opens(instrs, lo, hi) == Cardinality({k \in lo..hi : instrs[k + 1].op = "Jump"})
Closes(instrs, lo, hi) == Cardinality({k \in lo..hi : instrs[k + 1].op = "JumpBack"})
Partners(instrs, i) ==
    {j \in i..(Len(instrs) - 1) : Opens(instrs, i, j) = Closes(instrs, i, j)}

Symmetric(instrs) ==
    \A i \in 0..(Len(instrs) - 1) :
        LET inst == instrs[i + 1]
        IN  /\ inst.op = "Jump" =>
                 /\ inst.arg < Len(instrs)
                 /\ instrs[inst.arg + 1] = Inst("JumpBack", i)
                 /\ Partners(instrs, i) # {}
                 /\ inst.arg = Min(Partners(instrs, i))
            /\ inst.op = "JumpBack" =>
                 /\ inst.arg < Len(instrs)
                 /\ instrs[inst.arg + 1] = Inst("Jump", i)

\* C4: for every source over the instruction characters whose brackets are
\* balanced, with_str succeeds and every Jump and JumpBack of the program
\* points at its properly nested partner.
C4_BracketSymmetry ==
    (phase # "new" /\ OnlyInstructionChars(src) /\ Balanced(src))
        => /\ result.tag = "Ok"
           /\ Symmetric(instructions)

\* what of C4 the code does keep: whenever with_str returns a program, its
\* brackets are paired, and a balanced source is never refused with an error
C4_SymmetricWhenCompiled ==
    /\ result.tag = "Ok" => Symmetric(instructions)
    /\ (phase # "new" /\ OnlyInstructionChars(src) /\ Balanced(src))
          => result.tag # "Err"

\* C5: an unmatched `]` is reported as such at its byte offset, an
\* unmatched `[` at the offset of the first unclosed `[`; no program is
\* returned.
C5_UnmatchedPositions ==
    (phase # "new" /\ OnlyInstructionChars(src))
        => /\ UnmatchedCloses(src) # {} =>
                 /\ phase = "failed"
                 /\ result = [tag |-> "Err", err |-> "unmatched ']' found",
                              index |-> Min(UnmatchedCloses(src)) - 1]
           /\ (UnmatchedCloses(src) = {} /\ UnclosedOpens(src) # {}) =>
                 /\ phase = "failed"
                 /\ result = [tag |-> "Err", err |-> "unmatched '[' found",
                              index |-> Min(UnclosedOpens(src)) - 1]

\* C6: a source holding a byte outside the instruction characters is
\* refused with the unexpected-character error at the byte offset of the
\* first such byte, however long the folded runs before it.
C6_UnexpectedChar ==
    (phase # "new" /\ UnknownAt(src) # {})
        => /\ phase = "failed"
           /\ result = [tag |-> "Err", err |-> "unexpected char",
                        index |-> Min(UnknownAt(src)) - 1]

\* what of C6 the code does keep: the position is right whenever with_str
\* returns at all (it does not when a count overflows in a checked build)
C6_UnexpectedCharUnlessPanic ==
    (phase \notin {"new", "panicked"} /\ UnknownAt(src) # {})
        => /\ phase = "failed"
           /\ result = [tag |-> "Err", err |-> "unexpected char",
                        index |-> Min(UnknownAt(src)) - 1]

----------------------------------------------------------------------------
(* C7: cell arithmetic wraps modulo 256.  A turn of poll that executes     *)
(* Add(n) on a cell holding v leaves (v + n) mod 256 in it, Sub(n) leaves  *)
(* (v - n) mod 256; source `-.` emits 255; source `++.` emits exactly 2    *)
(* and then ends.                                                          *)

C7_AddSubStep ==
    (PollStep /\ position \in DOMAIN memory)
        => /\ Fetches("Add") =>
                 memory'[position] = (memory[position] + Fetched.arg) % U8
           /\ Fetches("Sub") =>
                 memory'[position] = (memory[position] - Fetched.arg) % U8

C7_Scenarios ==
    /\ (src = <<"-", ".">> /\ outputs # <<>>) => outputs[1] = 255
    /\ (src = <<"+", "+", ".">> /\ event = End) => outputs = <<2>>

\* C7: Add and Sub wrap modulo 256, in every step and in the two scenarios.
C7_WrappingArithmetic == []C7_Scenarios /\ [][C7_AddSubStep]_vars

----------------------------------------------------------------------------
(* C8: left-bound safety.  A turn of poll that executes MoveLeft(count)    *)
(* with count above the cell pointer returns an Error event, does not      *)
(* advance pc and leaves tape and cell pointer as they were.               *)

C8_LeftBoundError ==
    [][(PollStep /\ Fetches("MoveLeft") /\ Fetched.arg > position)
          => /\ phase' = "idle"
             /\ event'.kind = "Error"
             /\ pc' = pc
             /\ memory' = memory
             /\ position' = position]_vars

----------------------------------------------------------------------------
(* C9: the tape is unbounded to the right.  In every reachable state the   *)
(* cell pointer is an index of the tape, and no instruction has panicked   *)
(* on a cell access (the only other panic is with_str's).                  *)

C9_PointerInTape ==
    /\ position < MemoryLen(memory)
    /\ phase = "panicked" => result.tag = "Panic"

----------------------------------------------------------------------------
(* C10: input is FIFO.  The bytes stored by Input instructions so far are, *)
(* in order, the first bytes supplied through input().                     *)

C10_InputFifo == IsPrefix(consumed, supplied)

----------------------------------------------------------------------------
(* C11: output stream fidelity.  A turn of poll that executes an Output    *)
(* instruction returns Output(v) with v the current cell, and changes      *)
(* nothing but pc, which advances by one; no other turn returns a byte.    *)
(* So the bytes returned are, in order, the Output instructions executed.  *)

C11_OutputStep ==
    (PollStep /\ Fetches("Output"))
        => /\ position \in DOMAIN memory
           /\ phase' = "idle"
           /\ event' = OutputEv(memory[position])
           /\ outputs' = Append(outputs, memory[position])
           /\ pc' = pc + 1
           /\ memory' = memory /\ position' = position /\ input' = input

C11_OnlyOutputEmits ==
    (PollStep /\ ~Fetches("Output"))
        => (outputs' = outputs /\ (event'.kind = "Output" => event' = event))

\* C11: every executed Output instruction returns the current cell's value
\* at once and changes only pc; nothing else returns a byte.
C11_OutputFidelity == [][C11_OutputStep /\ C11_OnlyOutputEmits]_vars

\* what of C11 the code does keep: the same, as long as the cell pointer is
\* inside the tape when the Output instruction executes
C11_OutputInBounds ==
    [][(position < MemoryLen(memory) => C11_OutputStep) /\ C11_OnlyOutputEmits]_vars

----------------------------------------------------------------------------
(* C12: the compiler never panics.  with_str returns a program or a typed  *)
(* error for every source, and a source that is one run of a single        *)
(* foldable character compiles to instructions of that kind whose counts   *)
(* add up to the length of the run, also when the run is 256 long.         *)

\* the sum of the counts of a program
RECURSIVE SumArgs(_)
SumArgs(instrs) ==
    IF instrs = <<>> THEN 0 ELSE instrs[1].arg + SumArgs(Tail(instrs))

\* bf is a non-empty run of one foldable character
SingleRun(bf) ==
    /\ bf # <<>>
    /\ bf[1] \in Foldable
    /\ \A k \in 1..Len(bf) : bf[k] = bf[1]

\* C12: with_str never panics, and the program of a run of n identical
\* `+`, `-`, `>` or `<` has the total effect n.
C12_NoPanicNoOverflow ==
    phase # "new"
        => /\ result.tag \in {"Ok", "Err"}
           /\ SingleRun(src) =>
                 /\ \A k \in 1..Len(instructions) :
                        instructions[k].op = from_byte(src[1]).op
                 /\ SumArgs(instructions) = Len(src)

\* the same with every overflow removed from view: what holds of the runs
\* shorter than 256
C12_ShortRuns ==
    (phase # "new" /\ \A k \in 1..(Len(src) - U8 + 1) : ~SingleRun(SubSeq(src, k, k + U8 - 1)))
        => /\ result.tag \in {"Ok", "Err"}
           /\ SingleRun(src) => instructions = <<Inst(from_byte(src[1]).op, Len(src))>>

----------------------------------------------------------------------------
(* C13: the classic program.  The literal of main compiles, and run to End *)
(* it has returned the 13 bytes of "Hello World!\n", one per poll, in      *)
(* order.                                                                  *)

C13_HelloWorld ==
    (src = HelloWorld /\ phase # "new")
        => /\ result.tag = "Ok"
           /\ phase \notin {"failed", "panicked"}
           /\ IsPrefix(outputs, HelloWorldText)
           /\ event = End => outputs = HelloWorldText

----------------------------------------------------------------------------
(* The program generator (src/src/backend/mod.rs).  A builder call is      *)
(* [op, amount, body]; body is the sequence of calls the closure handed to *)
(* begin_loop makes, <<>> for the other calls.                             *)

\* number of builder calls the closure given to construct makes
MaxCalls == 2
\* number of builder calls in the body of a loop
MaxBody == 1

Call(op, amount, body) == [op |-> op, amount |-> amount, body |-> body]

\* the u8 amounts tried
Amounts == {1, U8 - 1}

Context_increase(bf, amount) == bf \o Rep("+", amount)
Context_decrease(bf, amount) == bf \o Rep("-", amount)
Context_move_right(bf, amount) == bf \o Rep(">", amount)
Context_move_left(bf, amount) == bf \o Rep("<", amount)
Context_output(bf) == Append(bf, ".")
Context_input(bf) == Append(bf, ",")

\* the calls of a closure, made one after the other on the buffer bf;
\* begin_loop pushes `[`, runs its closure, pushes `]`
RECURSIVE Context_calls(_, _)
Context_call(bf, c) ==
    CASE c.op = "increase"   -> Context_increase(bf, c.amount)
      [] c.op = "decrease"   -> Context_decrease(bf, c.amount)
      [] c.op = "move_right" -> Context_move_right(bf, c.amount)
      [] c.op = "move_left"  -> Context_move_left(bf, c.amount)
      [] c.op = "output"     -> Context_output(bf)
      [] c.op = "input"      -> Context_input(bf)
      [] c.op = "begin_loop" -> Append(Context_calls(Append(bf, "["), c.body), "]")

Context_calls(bf, calls) ==
    IF calls = <<>> THEN bf
    ELSE Context_calls(Context_call(bf, calls[1]), Tail(calls))

\* construct(f): a new buffer, increase(1), then the calls of f
construct(calls) == Context_calls(Context_increase(<<>>, 1), calls)

\* the closures tried: calls without a loop, loops of those, loops of these
SimpleCalls ==
    {Call(op, a, <<>>) : op \in {"increase", "decrease", "move_right", "move_left"},
                         a \in Amounts}
        \cup {Call("output", 0, <<>>), Call("input", 0, <<>>)}
LoopCalls(inner) == {Call("begin_loop", 0, body) : body \in SeqsUpTo(inner, MaxBody)}
BuilderCalls == SimpleCalls \cup LoopCalls(SimpleCalls \cup LoopCalls(SimpleCalls))
Generated == {construct(calls) : calls \in SeqsUpTo(BuilderCalls, MaxCalls)}

\* Interpreter::new(), about to compile a buffer that construct returned
InitGen ==
    /\ src \in Generated
    /\ phase = "new"
    /\ result = NoResult
    /\ instructions = <<>>
    /\ memory = new_memory
    /\ position = 0
    /\ pc = 0
    /\ input = <<>>
    /\ event = NoEvent
    /\ outputs = <<>>
    /\ supplied = <<>>
    /\ consumed = <<>>
    /\ afterEnd = <<>>

SpecGen == InitGen /\ [][Next]_vars

\* C14: every buffer construct returns holds only instruction characters,
\* has balanced brackets and is accepted by with_str, also when adjacent
\* builder calls make a run of more than 255 identical characters.
C14_GeneratedCompiles ==
    /\ OnlyInstructionChars(src)
    /\ Balanced(src)
    /\ phase # "new" => result.tag = "Ok"

\* what of C14 the code does keep: the buffer is always well formed, and
\* with_str never refuses it with an error
\* (src never changes: its form is looked at once, before with_str)
C14_GeneratedWellFormed ==
    /\ phase = "new" => (OnlyInstructionChars(src) /\ Balanced(src))
    /\ result.tag # "Err"


----------------------------------------------------------------------------
(* C15: the fold rule of Instruction::parse, stated from the characters    *)
(* alone.                                                                  *)

\* the characters that fold with the character c: its own pair, or nothing
Compatible(c) ==
    IF c \in {"+", "-"} THEN {"+", "-"}
    ELSE IF c \in {">", "<"} THEN {">", "<"}
    ELSE {}

\* length of the maximal run of compatible characters that str begins with
RunLength(str) ==
    CHOOSE n \in 1..Len(str) :
        /\ \A k \in 2..n : str[k] \in Compatible(str[1])
        /\ n < Len(str) => str[n + 1] \notin Compatible(str[1])

\* the running value v after the characters str[lo..hi] of a run that began
\* with str[1]: + 1 for the same direction, - 1 saturating at 0 for the
\* opposite one (halved only to keep the evaluation shallow)
RECURSIVE RunningValue(_, _, _, _)
RunningValue(v, str, lo, hi) ==
    IF lo > hi THEN v
    ELSE IF lo = hi THEN (IF str[lo] = str[1] THEN v + 1
                          ELSE IF v = 0 THEN 0 ELSE v - 1)
    ELSE LET mid == (lo + hi) \div 2
             left == RunningValue(v, str, lo, mid)
         IN  IF left >= 0 THEN RunningValue(left, str, mid + 1, hi) ELSE left

\* what the fold rule says parse(str) returns, in every build
FoldRule(str) ==
    \A checks \in BOOLEAN :
        LET r == parse(str, checks)
        IN  /\ r.tag = "Ok"
            /\ r.count = RunLength(str)
            /\ r.inst.op = from_byte(str[1]).op
            /\ str[1] \in Foldable
                  => r.inst.arg = RunningValue(1, str, 2, RunLength(str))
            /\ str[1] \notin Foldable => (r.count = 1 /\ r.inst = from_byte(str[1]))

\* the states in which with_str has just called parse on the source
JustCompiled == phase # "new" /\ event = NoEvent /\ supplied = <<>>

\* C15: parse consumes the maximal run of compatible characters; the kind
\* is that of the first character and the count is the running value from 1,
\* + 1 per same-direction and - 1 saturating at 0 per opposite-direction
\* character; `.`, `,`, `[`, `]` are one instruction of one byte each.
C15_FoldRule ==
    (JustCompiled /\ src # <<>> /\ src[1] \in InstructionChars) => FoldRule(src)

\* the same for the runs of fewer than 256 characters, which no count can
\* overflow
C15_FoldRuleShortRuns ==
    (JustCompiled /\ src # <<>> /\ src[1] \in InstructionChars /\ RunLength(src) < U8)
        => FoldRule(src)

----------------------------------------------------------------------------
(* C16: loop control flow.  A turn of poll's loop that fetches a Jump or a *)
(* JumpBack only moves pc; where it moves it depends on the current cell.  *)
(* The partner of a bracket is worked out here from the nesting alone, not *)
(* from the targets update_jumps stored.                                   *)

\* the JumpBack that closes the Jump at index i, the Jump that the JumpBack
\* at index j closes
MatchingJumpBack(i) == Min(Partners(instructions, i))
MatchingJump(j) ==
    CHOOSE i \in 0..j : /\ instructions[i + 1].op = "Jump"
                        /\ Partners(instructions, i) # {}
                        /\ MatchingJumpBack(i) = j

\* the cell under the pointer exists and holds zero / a non-zero value
CellZero == position < MemoryLen(memory) /\ memory[position] = 0
CellNonZero == position < MemoryLen(memory) /\ memory[position] # 0

\* the turn changes pc alone and poll goes on to the next instruction
OnlyPcMoves ==
    /\ memory' = memory /\ position' = position /\ input' = input
    /\ event' = event /\ outputs' = outputs /\ consumed' = consumed
    /\ phase' = "polling"

\* Jump on a zero cell: pc goes to the matching JumpBack, which the next
\* turn executes on the same zero cell, so that the body is skipped;
\* Jump on a non-zero cell: pc goes to the first instruction of the body
C16_JumpStep ==
    /\ (Fetches("Jump") /\ CellZero /\ PollStep)
          => /\ pc' = MatchingJumpBack(pc)
             /\ instructions[pc' + 1].op = "JumpBack"
             /\ OnlyPcMoves
    /\ (Fetches("Jump") /\ CellNonZero /\ PollStep)
          => (pc' = pc + 1 /\ OnlyPcMoves)

\* JumpBack on a zero cell: pc goes to the instruction after it;
\* JumpBack on a non-zero cell: pc goes to the matching Jump, which the next
\* turn executes on the same non-zero cell, entering the body
C16_JumpBackStep ==
    /\ (Fetches("JumpBack") /\ CellZero /\ PollStep)
          => (pc' = pc + 1 /\ OnlyPcMoves)
    /\ (Fetches("JumpBack") /\ CellNonZero /\ PollStep)
          => /\ pc' = MatchingJump(pc)
             /\ instructions[pc' + 1].op = "Jump"
             /\ OnlyPcMoves

\* C16: a Jump on a zero cell skips the body up to the instruction after
\* the matching JumpBack and on a non-zero cell enters the body; a JumpBack
\* on a non-zero cell goes back to the body of its Jump and on a zero cell
\* falls through; neither changes tape, cell pointer or input queue.
C16_LoopControlFlow == [][C16_JumpStep /\ C16_JumpBackStep]_vars

\* `,[-]` given 65: the Jump entered the body, the JumpBack went back 64
\* times and fell through on zero
C16_Witness ==
    /\ src = <<",", "[", "-", "]">>
    /\ consumed = <<65>>
    /\ memory[0] = 0
    /\ pc = Len(instructions)
    /\ event = End

----------------------------------------------------------------------------
(* C17: the program is immutable once compiled, and input() only appends   *)
(* to the pending-input queue.                                             *)

\* with_str has returned Ok
Compiled == result.tag = "Ok"

\* no step after a successful with_str changes the instruction stream
C17_ProgramUnchanged == Compiled => instructions' = instructions

\* the call input(bytes): the queue keeps what it held, in place, and gains
\* exactly the bytes supplied; memory, cell pointer and pc stay
C17_InputStep ==
    Input => /\ memory' = memory /\ position' = position /\ pc' = pc
             /\ IsPrefix(input, input')
             /\ Len(input') - Len(input) = Len(supplied') - Len(supplied)
             /\ SubSeq(input', Len(input) + 1, Len(input'))
                   = SubSeq(supplied', Len(supplied) + 1, Len(supplied'))

\* C17: after with_str has returned successfully no poll() or input()
\* changes the instruction stream; input() leaves memory, cell pointer and
\* program counter unchanged and only appends to the pending-input queue.
C17_ProgramImmutable == [][C17_ProgramUnchanged /\ C17_InputStep]_vars

\* `,.` polled to its end with 65 supplied in two calls of input: the
\* program is what with_str returned
C17_Witness ==
    /\ src = <<",", ".">>
    /\ instructions = <<Inst("Input", 0), Inst("Output", 0)>>
    /\ supplied = <<0, 65>>
    /\ outputs # <<>>
    /\ event = End

----------------------------------------------------------------------------
(* C18: the program counter between calls.                                 *)

\* with_str has returned Ok and no poll() is in progress or has panicked
BetweenCalls == phase = "idle"

\* pc is an index of the stream or one past its end
C18_PcInRange == BetweenCalls => (0 <= pc /\ pc <= Len(instructions))

\* poll() has just returned End / the needs-input event
C18_AtEnd == (BetweenCalls /\ event = End) => pc = Len(instructions)
C18_ReturnsInput ==
    (phase' = "idle" /\ event' = InputEv /\ PollStep)
        => /\ input' = <<>>
           /\ 0 <= pc' /\ pc' < Len(instructions)
           /\ instructions[pc' + 1].op = "Input"
           /\ pc' = pc

\* the turns in between never take pc out of the stream either
C18_TurnInRange == (phase' = "polling") => (0 <= pc' /\ pc' <= Len(instructions))

\* C18: between calls 0 <= pc <= number of instructions (the `pc -= 1` of an
\* unserved Input never underflows); poll() returns End only with pc equal
\* to the number of instructions, and the needs-input event only with the
\* pending-input queue empty and instructions[pc] an Input instruction.
C18_PcInvariant ==
    /\ [](C18_PcInRange /\ C18_AtEnd)
    /\ [][C18_ReturnsInput /\ C18_TurnInRange]_vars

\* `+,` polled with nothing supplied: poll() returned needs-input with pc
\* back on the Input instruction
C18_Witness ==
    /\ src = <<"+", ",">>
    /\ phase = "idle"
    /\ event = InputEv
    /\ pc = 1
    /\ input = <<>>
    /\ memory[0] = 1

----------------------------------------------------------------------------
(* C19: a compiled program without brackets runs to End.  Termination is   *)
(* stated by its variant: every turn of poll's loop takes pc one further,  *)
(* except the turn that returns needs-input on an empty queue, which the   *)
(* caller answers with at least one byte; and poll always returns.         *)

BracketFree ==
    /\ result.tag = "Ok"
    /\ \A k \in 1..Len(instructions) : instructions[k].op \notin {"Jump", "JumpBack"}

OutputInstructions == Cardinality({k \in 1..Len(instructions) : instructions[k].op = "Output"})

\* each instruction is executed once, in index order: a turn goes one
\* instruction further, or gives up on an Input the empty queue cannot serve
C19_InOrder ==
    (BracketFree /\ PollStep /\ pc < Len(instructions))
        => \/ pc' = pc + 1
           \/ pc' = pc /\ Fetches("Input") /\ input = <<>> /\ event' = InputEv

\* at End every Output instruction has returned its byte, and no other has
C19_OutputCount ==
    /\ BracketFree => Len(outputs) <= OutputInstructions
    /\ (BracketFree /\ event = End)
          => (pc = Len(instructions) /\ Len(outputs) = OutputInstructions)

\* every poll() returns
C19_PollReturns == BracketFree => phase # "panicked"

\* C19: for a compiled program without brackets, with every needs-input
\* answered, the polls end in End; each instruction is executed to
\* completion once, in index order, and the polls that return a byte are as
\* many as the Output instructions.
C19_BracketFreeTerminates ==
    /\ [](C19_PollReturns /\ C19_OutputCount)
    /\ [][C19_InOrder]_vars

\* the same short of the polls that panic on a pointer past the tape end
C19_InTape ==
    /\ []((BracketFree /\ phase = "panicked") => position >= MemoryLen(memory))
    /\ []C19_OutputCount
    /\ [][C19_InOrder]_vars
=============================================================================
